---- MODULE Spec2Model ----
(***************************************************************************)
(* Model of eval/3d_iou_loc.py (LangSplat): the query script that scores   *)
(* language-embedded Gaussians against text prompts.                       *)
(*                                                                         *)
(*   Spec      activate_stream, one call, relevance maps at pixel level    *)
(*   SpecEval  evaluate: feature loading, frame loop, file-system effects  *)
(*   SpecLoc   lerf_localization                                           *)
(*   SpecGt    eval_gt_lerfdata                                            *)
(*                                                                         *)
(* Relevance scores are floats in [0, 1] in the code; the model keeps them *)
(* in hundredths (0.65 is 65).  The autoencoder, the CLIP relevance model, *)
(* the colour map and cv2.filter2D are external: their results are inputs  *)
(* drawn from small sets at the step that reads them.                      *)
(***************************************************************************)
EXTENDS Integers, Sequences, FiniteSets, TLC

\* ------------------------------------------------------------------ bounds
\* Largest number of Gaussians of a checkpoint.
MaxGauss == 3
\* Number of text prompts (the list of line 295 has 14 entries).
NumPrompts == 2
\* Height and width of a rendered feature map (730 x 988 at line 270).
ImgH == 1
ImgW == 2
\* Frame capacity of the feature buffer (177 at line 270).
FrameCap == 2

\* Height of the relevance maps lerf_localization is given.
LocH == 1
\* Largest number of labels of img_ann, and of boxes of a label.
MaxLabels == 2
MaxBoxes == 2
\* Largest number of annotation files, and of objects of a file.
MaxGtFiles == 2
MaxObjects == 2

\* ------------------------------------------------------- program constants
\* len(feat_dir), len(ckpt_dir): the three feature levels.
NumHeads == 3

Heads == 0 .. (NumHeads - 1)
Prompts == 0 .. (NumPrompts - 1)

\* Relevance values, in hundredths, around the two thresholds of the code.
RelVals == {58, 59, 65, 66}

\* The eight per-Gaussian arrays activate_stream filters.
Fields == {"_features_dc", "_features_rest", "_language_feature", "_opacity",
           "_rotation", "_scaling", "_xyz", "max_radii2D"}

\* gaussians_list=None.  (__main__ passes either None or a list of three.)
None == <<>>

VARIABLES
    \* ---- activate_stream (Spec)
    exclude_objects,   \* args.exclude_objects
    generate_mask,     \* args.generate_mask
    n_gauss,           \* number of Gaussians of the checkpoints
    heap,              \* object store: reference -> GaussianModel arrays
    gaussians_list,    \* None or the references of the three models
    point_xyz,         \* positions of the first checkpoint's Gaussians
    index,             \* frame index activate_stream was called with
    as_pc,             \* position in activate_stream
    k,                 \* prompt loop variable
    i,                 \* head loop variable
    dirs,              \* directories that exist below output_path
    out,               \* what the last loop body wrote
    written,           \* history: <<kind, head, prompt>> of every write so far
    \* ---- evaluate (SpecEval)
    ev_pc,             \* position in evaluate
    feat_files,        \* per level, the *.npy base names glob found
    compressed_sem_feats, \* per level, per frame: where the features came from
    lvl,               \* level loop variable of the loading loop
    j,                 \* frame loop variable
    files,             \* files written below output_path
    calls,             \* history: the index of every activate_stream call
    \* ---- lerf_localization (SpecLoc)
    loc_pc,            \* position in lerf_localization
    n_labels,          \* len(positives), the labels of img_ann
    loc_k,             \* prompt loop variable
    acc_num,           \* prompts located so far
    acc_before,        \* history: acc_num when the current prompt began
    avg_filtered,      \* per head, the smoothed relevance map of the prompt
    score_lvl,         \* per head, the maximum of its smoothed map
    selec_head,        \* the selected head
    coord_final,       \* the located points (x, y) of the selected head
    n_box,             \* boxes of the prompt read so far
    box,               \* the box read last, x1y1x2y2
    flag,              \* 1 once a located point fell into a box
    any_inside,        \* history: some box read so far holds a located point
    \* ---- eval_gt_lerfdata (SpecGt)
    gt_pc,             \* position in eval_gt_lerfdata
    n_files,           \* len(gt_json_paths)
    file_no,           \* files read so far
    frame_name,        \* the digits of gt_data['info']['name'] of the open file
    idx,               \* the frame index of the open file
    hw_bound,          \* h, w have been assigned
    n_obj,             \* objects of the open file read so far
    img_ann,           \* label -> {'bboxes', 'mask'} of the open file
    gt_ann,            \* key -> img_ann
    gt_objs,           \* history: the objects of the open file, in order
    gt_seen            \* history: name and objects of every file closed so far

\* The arguments and loop state of activate_stream, shared by Spec and SpecEval.
argVars == <<exclude_objects, generate_mask, gaussians_list>>
loopVars == <<index, as_pc, k, i, dirs>>
\* Contents, at pixel level (Spec).
pixVars == <<n_gauss, heap, point_xyz, out, written>>
\* evaluate (SpecEval).
evVars == <<ev_pc, feat_files, compressed_sem_feats, lvl, j, files, calls>>

\* lerf_localization (SpecLoc).
locVars == <<loc_pc, n_labels, loc_k, acc_num, acc_before, avg_filtered, score_lvl,
             selec_head, coord_final, n_box, box, flag, any_inside>>

\* eval_gt_lerfdata (SpecGt).
gtVars == <<gt_pc, n_files, file_no, frame_name, idx, hw_bound, n_obj, img_ann, gt_ann,
            gt_objs, gt_seen>>

vars == <<argVars, loopVars, pixVars, evVars, locVars, gtVars>>

\* ------------------------------------------------------------ the objects
\* The entry of field f for Gaussian p of head h's checkpoint.
Attr(f, h, p) == <<f, h, p>>

\* GaussianModel restored from checkpoint h with n Gaussians.
GaussianOf(h, n) == [f \in Fields |-> [p \in 1 .. n |-> Attr(f, h, p)]]

EmptyModel == [f \in Fields |-> <<>>]

\* Reference of the object copy.deepcopy allocates; gaussians_list[h] is h + 1.
TempRef == 0

deepcopy_alias(ref) == ref

\* copy.deepcopy: a new object, distinct from every model of the list.
deepcopy(ref) == TempRef

\* ---------------------------------------------------------- array helpers
RECURSIVE BoolIndexFrom(_, _, _)
BoolIndexFrom(arr, mask, p) ==
    IF p > Len(arr) THEN <<>>
    ELSE (IF p \in DOMAIN mask /\ mask[p] THEN <<arr[p]>> ELSE <<>>)
         \o BoolIndexFrom(arr, mask, p + 1)

\* arr[mask] for a boolean mask over the first axis.
BoolIndex(arr, mask) == BoolIndexFrom(arr, mask, 1)

\* (N, 1) -> (N,)
Squeeze(m) == [p \in DOMAIN m |-> m[p][1]]

MaskExclude_ge(rel) == [p \in DOMAIN rel |-> [q \in DOMAIN rel[p] |-> rel[p][q] >= 65]]

\* valid_map[i][k] > 0.65
MaskExclude(rel) == [p \in DOMAIN rel |-> [q \in DOMAIN rel[p] |-> rel[p][q] > 65]]

MaskThresh_ge(rel) == [p \in DOMAIN rel |-> [q \in DOMAIN rel[p] |-> rel[p][q] >= 58]]

\* valid_map[i][k] > 0.58
MaskThresh(rel) == [p \in DOMAIN rel |-> [q \in DOMAIN rel[p] |-> rel[p][q] > 58]]

\* mask.float()
ToFloat(m) == [p \in DOMAIN m |-> [q \in DOMAIN m[p] |-> IF m[p][q] THEN 1 ELSE 0]]

\* colormap_saving: one colour per entry of the map (external).
Colormap(rel) == [p \in DOMAIN rel |-> [q \in DOMAIN rel[p] |-> <<"rgb", rel[p][q]>>]]

\* rgb.reshape(rgb.shape[0], 3) for an (M, 1, 3) array.
ReshapeRows(rgb) == [p \in DOMAIN rgb |-> rgb[p][1]]

OutputKind_maskFirst(gl, gm) ==
    IF gm THEN "mask" ELSE IF gl /= None THEN "exclude" ELSE "full"

\* The branch the loop body takes.
OutputKind(gl, gm) ==
    IF gl /= None THEN "exclude" ELSE IF gm THEN "mask" ELSE "full"

\* Shape of valid_map[i][k]: a rendered image in 2D mask mode, otherwise the
\* (N, 1) column __main__ builds from the Gaussians' language features.
MapH == IF exclude_objects \/ ~generate_mask THEN n_gauss ELSE ImgH
MapW == IF exclude_objects \/ ~generate_mask THEN 1 ELSE ImgW
Maps == [1 .. MapH -> [1 .. MapW -> RelVals]]

NoOut == [kind |-> "none"]

\* Directories and files below output_path.
HeatmapDir == <<"heatmap">>
PointCloudDir == <<"point_cloud">>
MaskDir(p, h) == <<"masks", p, h>>

MaskDirs_firstLevel == {MaskDir(p, h) : p \in Prompts, h \in {0}}

\* Lines 299-302: one directory per prompt and level.
MaskDirs == {MaskDir(p, h) : p \in Prompts, h \in Heads}

\* Where the features of a frame came from.
FromZeros == [src |-> "zeros", id |-> <<>>]
FromCheckpoint(h) == [src |-> "checkpoint", id |-> <<h>>]
FromFile(name) == [src |-> "file", id |-> name]

\* Base names of *.npy files a renders_npy directory may hold, as digit strings.
FeatNames == {<<1>>, <<2>>, <<1, 0>>}

RECURSIVE ParseInt(_)
\* int(s) of a digit string.
ParseInt(d) == IF d = <<>> THEN 0 ELSE 10 * ParseInt(SubSeq(d, 1, Len(d) - 1)) + d[Len(d)]

RECURSIVE SortedByInt(_)
\* sorted(paths, key=lambda file_name: int(basename.split(".npy")[0]))
SortedByInt(S) ==
    IF S = {} THEN <<>>
    ELSE LET m == CHOOSE x \in S : \A y \in S : ParseInt(x) <= ParseInt(y)
         IN <<m>> \o SortedByInt(S \ {m})

\* ------------------------------------------------------------------- Init
\* __main__, lines 370-407: what evaluate and activate_stream are called with.
InitArgs ==
    /\ exclude_objects \in BOOLEAN
    /\ generate_mask \in BOOLEAN
    /\ gaussians_list = IF exclude_objects THEN [h \in 1 .. NumHeads |-> h] ELSE None

IdlePix ==
    /\ n_gauss = 0
    /\ heap = <<>>
    /\ point_xyz = <<>>
    /\ out = NoOut
    /\ written = {}

IdleEval ==
    /\ ev_pc = "idle"
    /\ feat_files = <<>>
    /\ compressed_sem_feats = <<>>
    /\ lvl = 0
    /\ j = 0
    /\ files = {}
    /\ calls = <<>>

IdleGt ==
    /\ gt_pc = "idle"
    /\ n_files = 0
    /\ file_no = 0
    /\ frame_name = <<>>
    /\ idx = 0
    /\ hw_bound = FALSE
    /\ n_obj = 0
    /\ img_ann = <<>>
    /\ gt_ann = <<>>
    /\ gt_objs = <<>>
    /\ gt_seen = <<>>

IdleLoc ==
    /\ loc_pc = "idle"
    /\ n_labels = 0
    /\ loc_k = 0
    /\ acc_num = 0
    /\ acc_before = 0
    /\ avg_filtered = <<>>
    /\ score_lvl = <<>>
    /\ selec_head = 0
    /\ coord_final = <<>>
    /\ n_box = 0
    /\ box = <<>>
    /\ flag = 0
    /\ any_inside = FALSE

\* One call of activate_stream as evaluate makes it, on an output directory
\* that holds only what evaluate made.  The checkpoints hold the same number
\* of Gaussians (the reshape of line 392 fails otherwise), at least two: with
\* a single Gaussian squeeze() returns a 0-d mask, which is not modelled.
InitAS ==
    /\ InitArgs
    /\ n_gauss \in 2 .. MaxGauss
    /\ heap = [r \in 0 .. NumHeads |->
                 IF r = TempRef THEN EmptyModel ELSE GaussianOf(r - 1, n_gauss)]
    /\ point_xyz = [p \in 1 .. n_gauss |-> Attr("_xyz", 0, p)]
    /\ index \in IF ~exclude_objects /\ generate_mask THEN 0 .. (FrameCap - 1) ELSE {0}
    /\ as_pc = "mkdir"
    /\ k = 0
    /\ i = 0
    /\ dirs = IF generate_mask THEN MaskDirs ELSE {}
    /\ out = NoOut
    /\ written = {}
    /\ IdleEval
    /\ IdleLoc
    /\ IdleGt

\* What an action of one function leaves alone: the state of the others.
restVars == <<locVars, gtVars>>

\* ------------------------------------------------- activate_stream actions
\* Lines 109-113: the head of the prompt loop.
HeatmapDirStep ==
    /\ as_pc = "mkdir"
    /\ dirs' = IF HeatmapDir \notin dirs THEN dirs \cup {HeatmapDir} ELSE dirs
    /\ as_pc' = "body"
    /\ UNCHANGED <<index, k, i>>

\* Lines 114 and 108: the head loop, then the prompt loop, advance.
Advance ==
    /\ as_pc = "next"
    /\ IF i + 1 < NumHeads
         THEN /\ i' = i + 1 /\ k' = k /\ as_pc' = "body"
         ELSE IF k + 1 < NumPrompts
                THEN /\ i' = 0 /\ k' = k + 1 /\ as_pc' = "mkdir"
                ELSE /\ i' = i /\ k' = k /\ as_pc' = "done"
    /\ UNCHANGED <<index, dirs>>

ActHeatmapDir ==
    /\ HeatmapDirStep
    /\ UNCHANGED <<argVars, pixVars, evVars>>
    /\ UNCHANGED restVars

\* Lines 125-146.
BodyExclude(rel) ==
    LET g == gaussians_list[i + 1]
        mask == Squeeze(MaskExclude(rel))
        rgb == BoolIndex(Colormap(rel), mask)
        t == deepcopy(g)
        copied == [heap EXCEPT ![t] = heap[g]]
        filtered == [f \in Fields |-> BoolIndex(copied[t][f], mask)]
    IN /\ heap' = [copied EXCEPT ![t] = filtered]
       /\ out' = [kind |-> "exclude", rel |-> rel, head |-> i, prompt |-> k,
                  model |-> filtered,
                  points |-> BoolIndex(point_xyz, mask),
                  colors |-> ReshapeRows(rgb)]
       /\ written' = written \cup {<<"gaussian_model", i, k>>, <<"filtered_pcd", i, k>>}

\* Lines 147-150.
BodyMask(rel) ==
    /\ out' = [kind |-> "mask", rel |-> rel, head |-> i, prompt |-> k,
               index |-> index, image |-> ToFloat(MaskThresh(rel))]
    /\ written' = written \cup {<<"mask", i, k>>}
    /\ UNCHANGED heap

\* Lines 151-158.
BodyFull(rel) ==
    /\ out' = [kind |-> "full", rel |-> rel, head |-> i, prompt |-> k,
               points |-> point_xyz,
               colors |-> ReshapeRows(Colormap(rel))]
    /\ written' = written \cup {<<"full_pcd", i, k>>}
    /\ UNCHANGED heap

\* Lines 123-158: one pass of the head loop for (i, k).
ActBody ==
    /\ as_pc = "body"
    /\ \E rel \in Maps :
         LET kind == OutputKind(gaussians_list, generate_mask)
         IN CASE kind = "exclude" -> BodyExclude(rel)
              [] kind = "mask" -> BodyMask(rel)
              [] OTHER -> BodyFull(rel)
    /\ as_pc' = "next"
    /\ UNCHANGED <<argVars, index, k, i, dirs, n_gauss, point_xyz, evVars>>
    /\ UNCHANGED restVars

\* The loops advance; the locals of the body (gaussians_temp, mask, pcd) are dropped.
ActNext ==
    /\ Advance
    /\ out' = NoOut
    /\ heap' = [heap EXCEPT ![TempRef] = EmptyModel]
    /\ UNCHANGED <<argVars, n_gauss, point_xyz, written, evVars>>
    /\ UNCHANGED restVars

Init == InitAS

Next == ActHeatmapDir \/ ActBody \/ ActNext

Spec == Init /\ [][Next]_vars

\* ---------------------------------------------------------------- evaluate
\* evaluate as __main__ calls it, on a fresh output directory:
\* compressed_sem_feats holds, per level, the one frame built from the
\* checkpoint's language features (lines 382-394).
InitEval ==
    /\ InitArgs
    /\ IdlePix
    /\ index = 0
    /\ as_pc = "idle"
    /\ k = 0
    /\ i = 0
    /\ dirs = {}
    /\ ev_pc = "start"
    /\ feat_files = [h \in Heads |-> {}]
    /\ compressed_sem_feats = [h \in Heads |-> <<FromCheckpoint(h)>>]
    /\ lvl = 0
    /\ j = 0
    /\ files = {}
    /\ calls = <<>>
    /\ IdleLoc
    /\ IdleGt

\* Lines 269-270: in 2D mask mode the buffer is replaced by zeros.
EvAlloc ==
    /\ ev_pc = "start"
    /\ IF gaussians_list = None /\ generate_mask
         THEN /\ compressed_sem_feats' = [h \in Heads |-> [f \in 1 .. FrameCap |-> FromZeros]]
              /\ ev_pc' = "load"
         ELSE /\ UNCHANGED compressed_sem_feats
              /\ ev_pc' = "frame"
    /\ UNCHANGED <<argVars, loopVars, pixVars, feat_files, lvl, j, files, calls>>
    /\ UNCHANGED restVars

\* Lines 271-275 for one level: the sorted files fill the frames from 0 on;
\* a file past the end of the buffer raises IndexError.
EvLoad ==
    /\ ev_pc = "load"
    /\ \E found \in SUBSET FeatNames :
         LET feat_paths_lvl == SortedByInt(found)
         IN /\ feat_files' = [feat_files EXCEPT ![lvl] = found]
            /\ compressed_sem_feats' =
                 [compressed_sem_feats EXCEPT ![lvl] =
                    [f \in 1 .. FrameCap |->
                       IF f <= Len(feat_paths_lvl) THEN FromFile(feat_paths_lvl[f])
                       ELSE compressed_sem_feats[lvl][f]]]
            /\ IF Len(feat_paths_lvl) > FrameCap
                 THEN /\ ev_pc' = "raised" /\ lvl' = lvl
                 ELSE IF lvl + 1 < NumHeads
                        THEN /\ ev_pc' = "load" /\ lvl' = lvl + 1
                        ELSE /\ ev_pc' = "frame" /\ lvl' = lvl
    /\ UNCHANGED <<argVars, loopVars, pixVars, j, files, calls>>
    /\ UNCHANGED restVars

\* Lines 286-307: frame j; the mask directories are made, activate_stream is called.
EvFrame ==
    /\ ev_pc = "frame"
    /\ j < Len(compressed_sem_feats[0])
    /\ dirs' = IF generate_mask THEN dirs \cup MaskDirs ELSE dirs
    /\ calls' = Append(calls, j)
    /\ index' = j
    /\ k' = 0
    /\ i' = 0
    /\ as_pc' = "mkdir"
    /\ ev_pc' = "activate"
    /\ UNCHANGED <<argVars, pixVars, feat_files, compressed_sem_feats, lvl, j, files>>
    /\ UNCHANGED restVars

EvHeatmapDir ==
    /\ ev_pc = "activate"
    /\ HeatmapDirStep
    /\ UNCHANGED <<argVars, pixVars, evVars>>
    /\ UNCHANGED restVars

\* A write replaces the file of the same path.
WriteFile(fs, d, name, from) ==
    {f \in fs : ~(f.dir = d /\ f.name = name)} \cup {[dir |-> d, name |-> name, from |-> from]}

\* Lines 123-158 for (i, k), as seen from the file system: which file is written
\* and which frame of which level it was computed from.
EvBody ==
    /\ ev_pc = "activate"
    /\ as_pc = "body"
    /\ LET kind == OutputKind(gaussians_list, generate_mask)
           from == compressed_sem_feats[i][index + 1]
       IN files' =
            CASE kind = "exclude" ->
                   WriteFile(WriteFile(files, PointCloudDir, <<"exclude", k, i>>, from),
                             HeatmapDir, <<"exclude", k, i>>, from)
              [] kind = "mask" -> WriteFile(files, MaskDir(k, i), <<index>>, from)
              [] OTHER -> WriteFile(files, HeatmapDir, <<"exclude", k, i>>, from)
    /\ as_pc' = "next"
    /\ UNCHANGED <<argVars, index, k, i, dirs, pixVars,
                   ev_pc, feat_files, compressed_sem_feats, lvl, j, calls>>
    /\ UNCHANGED restVars

EvNext ==
    /\ ev_pc = "activate"
    /\ Advance
    /\ UNCHANGED <<argVars, pixVars, evVars>>
    /\ UNCHANGED restVars

\* activate_stream returns; the frame loop advances or ends.
EvReturn ==
    /\ ev_pc = "activate"
    /\ as_pc = "done"
    /\ as_pc' = "idle"
    /\ j' = j + 1
    /\ ev_pc' = IF j + 1 < Len(compressed_sem_feats[0]) THEN "frame" ELSE "done"
    /\ UNCHANGED <<argVars, index, k, i, dirs, pixVars,
                   feat_files, compressed_sem_feats, lvl, files, calls>>
    /\ UNCHANGED restVars

NextEval == EvAlloc \/ EvLoad \/ EvFrame \/ EvHeatmapDir \/ EvBody \/ EvNext \/ EvReturn

SpecEval == InitEval /\ [][NextEval]_vars

\* -------------------------------------------------------- lerf_localization
\* Values of a smoothed relevance map (the result of cv2.filter2D, external).
LocVals == {1, 2}
\* The maps have LocH rows and two columns.
LocRows == 0 .. (LocH - 1)
LocCols == {0, 1}
LocW == Cardinality(LocCols)
LocMaps == [Heads -> [LocRows -> [LocCols -> LocVals]]]

\* Corner coordinates of the ground-truth boxes.
BoxCoords == {0, 1}
Boxes == {<<x1, y1, x2, y2>> : x1 \in BoxCoords, y1 \in BoxCoords,
                               x2 \in BoxCoords, y2 \in BoxCoords}

\* avg_filtered[..., i].max()
ImgMax(img) ==
    CHOOSE v \in LocVals :
        /\ \E r \in DOMAIN img : \E c \in DOMAIN img[r] : img[r][c] = v
        /\ \A r \in DOMAIN img : \A c \in DOMAIN img[r] : img[r][c] <= v

RECURSIVE NonzeroFrom(_, _, _)
NonzeroFrom(img, score, n) ==
    IF n >= LocH * LocW THEN <<>>
    ELSE LET r == n \div LocW
             c == n % LocW
         IN (IF img[r][c] = score THEN <<<<r, c>>>> ELSE <<>>)
            \o NonzeroFrom(img, score, n + 1)

\* np.asarray(np.nonzero(img == score)).transpose(1, 0): the (row, column)
\* pairs of the entries equal to score, in row-major order.
Nonzero(img, score) == NonzeroFrom(img, score, 0)

ReverseLast_keep(pairs) == pairs

\* [..., ::-1]: (row, column) becomes (column, row), that is (x, y).
ReverseLast(pairs) == [n \in DOMAIN pairs |-> <<pairs[n][2], pairs[n][1]>>]

ArgMax_last(s) ==
    CHOOSE h \in DOMAIN s :
        /\ \A g \in DOMAIN s : s[g] <= s[h]
        /\ \A g \in DOMAIN s : s[g] = s[h] => g <= h

\* np.argmax: the first index of the greatest entry.
ArgMax(s) ==
    CHOOSE h \in DOMAIN s :
        /\ \A g \in DOMAIN s : s[g] <= s[h]
        /\ \A g \in DOMAIN s : s[g] = s[h] => h <= g

Min2(a, b) == IF a < b THEN a ELSE b
Max2(a, b) == IF a > b THEN a ELSE b

InBox_strict(cord, b) ==
    /\ cord[1] > Min2(b[1], b[3]) /\ cord[1] < Max2(b[1], b[3])
    /\ cord[2] > Min2(b[2], b[4]) /\ cord[2] < Max2(b[2], b[4])

\* Lines 232-237: the containment test of one located point.
InBox(cord, b) ==
    LET x_min == Min2(b[1], b[3])
        x_max == Max2(b[1], b[3])
        y_min == Min2(b[2], b[4])
        y_max == Max2(b[2], b[4])
    IN /\ cord[1] >= x_min /\ cord[1] <= x_max
       /\ cord[2] >= y_min /\ cord[2] <= y_max

\* The claimed meaning of "inside", for the history variable and the properties.
Inside(x, y, b) ==
    /\ (b[1] <= x \/ b[3] <= x) /\ (x <= b[1] \/ x <= b[3])
    /\ (b[2] <= y \/ b[4] <= y) /\ (y <= b[2] \/ y <= b[4])

InitLoc ==
    /\ exclude_objects = FALSE
    /\ generate_mask = FALSE
    /\ gaussians_list = None
    /\ index = 0
    /\ as_pc = "idle"
    /\ k = 0
    /\ i = 0
    /\ dirs = {}
    /\ IdlePix
    /\ IdleEval
    /\ loc_pc = "prompt"
    /\ n_labels \in 0 .. MaxLabels
    /\ loc_k = 0
    /\ acc_num = 0
    /\ acc_before = 0
    /\ avg_filtered = <<>>
    /\ score_lvl = <<>>
    /\ selec_head = 0
    /\ coord_final = <<>>
    /\ n_box = 0
    /\ box = <<>>
    /\ flag = 0
    /\ any_inside = FALSE
    /\ IdleGt

\* Lines 210-228: the maps of prompt k are smoothed, each head is scored, the
\* head of the greatest score is selected.
LocSelect ==
    /\ loc_pc = "prompt"
    /\ loc_k < n_labels
    /\ \E maps \in LocMaps :
         LET scores == [h \in Heads |-> ImgMax(maps[h])]
             coord_lvl == [h \in Heads |-> ReverseLast(Nonzero(maps[h], scores[h]))]
         IN /\ avg_filtered' = maps
            /\ score_lvl' = scores
            /\ selec_head' = ArgMax(scores)
            /\ coord_final' = coord_lvl[ArgMax(scores)]
    /\ loc_pc' = "selected"
    /\ UNCHANGED <<n_labels, loc_k, acc_num, acc_before, n_box, box, flag, any_inside>>
    /\ UNCHANGED <<argVars, loopVars, pixVars, evVars, gtVars>>

\* Line 230: the box loop of the prompt begins.  The scoring does not read the
\* maps again; they are dropped from the state.
LocBoxesBegin ==
    /\ loc_pc = "selected"
    /\ avg_filtered' = <<>>
    /\ loc_pc' = "box"
    /\ UNCHANGED <<n_labels, loc_k, acc_num, acc_before, score_lvl, selec_head,
                   coord_final, n_box, box, flag, any_inside>>
    /\ UNCHANGED <<argVars, loopVars, pixVars, evVars, gtVars>>

\* Lines 230-242 for one box: the first located point inside it counts the
\* prompt and ends both loops.
LocBox ==
    /\ loc_pc = "box"
    /\ n_box < MaxBoxes
    /\ \E b \in Boxes :
         LET hit == \E n \in DOMAIN coord_final : InBox(coord_final[n], b)
         IN /\ box' = b
            /\ n_box' = n_box + 1
            /\ any_inside' = (any_inside \/
                                \E n \in DOMAIN coord_final :
                                    Inside(coord_final[n][1], coord_final[n][2], b))
            /\ IF hit
                 THEN /\ acc_num' = acc_num + 1
                      /\ flag' = 1
                      /\ loc_pc' = "show"
                 ELSE /\ acc_num' = acc_num
                      /\ flag' = 0
                      /\ loc_pc' = "box"
    /\ UNCHANGED <<n_labels, loc_k, acc_before, avg_filtered, score_lvl, selec_head,
                   coord_final>>
    /\ UNCHANGED <<argVars, loopVars, pixVars, evVars, gtVars>>

\* The boxes of the prompt are used up without a hit (a label has at least one box).
LocBoxesEnd ==
    /\ loc_pc = "box"
    /\ n_box >= 1
    /\ loc_pc' = "show"
    /\ UNCHANGED <<n_labels, loc_k, acc_num, acc_before, avg_filtered, score_lvl,
                   selec_head, coord_final, n_box, box, flag, any_inside>>
    /\ UNCHANGED <<argVars, loopVars, pixVars, evVars, gtVars>>

\* Lines 244-254 and 210: the result image of the prompt is saved and the
\* prompt loop advances; what the prompt left in the locals is not read again.
LocShow ==
    /\ loc_pc = "show"
    /\ loc_k' = loc_k + 1
    /\ acc_before' = acc_num
    /\ score_lvl' = <<>>
    /\ selec_head' = 0
    /\ coord_final' = <<>>
    /\ n_box' = 0
    /\ box' = <<>>
    /\ flag' = 0
    /\ any_inside' = FALSE
    /\ loc_pc' = "prompt"
    /\ UNCHANGED <<n_labels, acc_num, avg_filtered>>
    /\ UNCHANGED <<argVars, loopVars, pixVars, evVars, gtVars>>

\* Line 255.
LocReturn ==
    /\ loc_pc = "prompt"
    /\ loc_k = n_labels
    /\ loc_pc' = "done"
    /\ UNCHANGED <<n_labels, loc_k, acc_num, acc_before, avg_filtered, score_lvl, selec_head,
                   coord_final, n_box, box, flag, any_inside>>
    /\ UNCHANGED <<argVars, loopVars, pixVars, evVars, gtVars>>

NextLoc == LocSelect \/ LocBoxesBegin \/ LocBox \/ LocBoxesEnd \/ LocShow \/ LocReturn

SpecLoc == InitLoc /\ [][NextLoc]_vars

\* --------------------------------------------------------- eval_gt_lerfdata
\* The digits xxxxx of an info name 'frame_xxxxx.jpg'.
FrameDigits == {<<0, 0>>, <<0, 1>>, <<1, 0>>}
GtLabels == {"apple", "plate"}

\* The bbox and the segmentation of the n-th object of a file (n from 1).
BboxOf(n) == <<n, n, n + 1, n + 1>>
SegOf(n) == n

FrameIdx_same(name) == ParseInt(name)

\* Line 72: int(name.split('_')[-1].split('.jpg')[0]) - 1
FrameIdx(name) == ParseInt(name) - 1

\* numpy arrays: the number of axes and the values in row-major order.
\* np.asarray(bbox).reshape(-1)
Flat(vals) == [nd |-> 1, v |-> vals]
\* a.reshape(-1, 4)
Reshape4(a) == [nd |-> 2, v |-> a.v]

ConcatBoxes_last(old, b) == Reshape4(b)

\* Lines 79-80: np.concatenate([old.reshape(-1, 4), box.reshape(-1, 4)], axis=0)
ConcatBoxes(old, b) == [nd |-> 2, v |-> Reshape4(old).v \o Reshape4(b).v]

\* polygon_to_mask and stack_mask are external: a mask is kept as the list of
\* the polygons stacked into it, in stacking order.
polygon_to_mask(seg) == <<seg>>
stack_mask(mask_base, mask_add) == mask_base \o mask_add

InitGt ==
    /\ exclude_objects = FALSE
    /\ generate_mask = FALSE
    /\ gaussians_list = None
    /\ index = 0
    /\ as_pc = "idle"
    /\ k = 0
    /\ i = 0
    /\ dirs = {}
    /\ IdlePix
    /\ IdleEval
    /\ IdleLoc
    /\ gt_pc = "files"
    /\ n_files \in 0 .. MaxGtFiles
    /\ file_no = 0
    /\ frame_name = <<>>
    /\ idx = 0
    /\ hw_bound = FALSE
    /\ n_obj = 0
    /\ img_ann = <<>>
    /\ gt_ann = <<>>
    /\ gt_objs = <<>>
    /\ gt_seen = <<>>

\* Lines 66-72: the next annotation file is read.
GtOpen ==
    /\ gt_pc = "files"
    /\ file_no < n_files
    /\ \E name \in FrameDigits :
         /\ frame_name' = name
         /\ idx' = FrameIdx(name)
    /\ img_ann' = <<>>
    /\ hw_bound' = TRUE
    /\ n_obj' = 0
    /\ gt_objs' = <<>>
    /\ gt_pc' = "objects"
    /\ UNCHANGED <<n_files, file_no, gt_ann, gt_seen>>
    /\ UNCHANGED <<argVars, loopVars, pixVars, evVars, locVars>>

\* Lines 73-88 for one object.
GtObject ==
    /\ gt_pc = "objects"
    /\ n_obj < MaxObjects
    /\ \E label \in GtLabels :
         LET b == Flat(BboxOf(n_obj + 1))
             mask == polygon_to_mask(SegOf(n_obj + 1))
             has_mask == label \in DOMAIN img_ann
         IN /\ img_ann' =
                 IF has_mask
                   THEN [img_ann EXCEPT ![label] =
                           [bboxes |-> ConcatBoxes(img_ann[label].bboxes, b),
                            mask |-> stack_mask(img_ann[label].mask, mask)]]
                   ELSE (label :> [bboxes |-> b, mask |-> mask]) @@ img_ann
            /\ gt_objs' = Append(gt_objs, [label |-> label, bbox |-> BboxOf(n_obj + 1),
                                           seg |-> SegOf(n_obj + 1)])
    /\ n_obj' = n_obj + 1
    /\ UNCHANGED <<gt_pc, n_files, file_no, frame_name, idx, hw_bound, gt_ann, gt_seen>>
    /\ UNCHANGED <<argVars, loopVars, pixVars, evVars, locVars>>

\* Line 89: the file's annotations are stored under its frame index.
GtClose ==
    /\ gt_pc = "objects"
    /\ gt_ann' = (ToString(idx) :> img_ann) @@ gt_ann
    /\ gt_seen' = Append(gt_seen, [name |-> frame_name, objs |-> gt_objs])
    /\ file_no' = file_no + 1
    /\ gt_pc' = "files"
    /\ UNCHANGED <<n_files, frame_name, idx, hw_bound, n_obj, img_ann, gt_objs>>
    /\ UNCHANGED <<argVars, loopVars, pixVars, evVars, locVars>>

\* Line 91: h and w are unbound when no file was read.
GtReturn ==
    /\ gt_pc = "files"
    /\ file_no = n_files
    /\ gt_pc' = IF hw_bound THEN "returned" ELSE "raised"
    /\ UNCHANGED <<n_files, file_no, frame_name, idx, hw_bound, n_obj, img_ann, gt_ann,
                   gt_objs, gt_seen>>
    /\ UNCHANGED <<argVars, loopVars, pixVars, evVars, locVars>>

NextGt == GtOpen \/ GtObject \/ GtClose \/ GtReturn

SpecGt == InitGt /\ [][NextGt]_vars

\* ------------------------------------------------------------- properties
\* The n-th smallest member of a set of positions.
NthOf(S, n) == CHOOSE p \in S : Cardinality({q \in S : q <= p}) = n

\* res holds the entries of src at the positions of keep, in the order of src.
IsSelection(res, src, keep) ==
    /\ Len(res) = Cardinality(keep)
    /\ \A n \in 1 .. Len(res) : res[n] = src[NthOf(keep, n)]

\* (i, k) pairs whose loop body has run.
Completed(h, p) ==
    \/ p < k
    \/ p = k /\ h < i
    \/ p = k /\ h = i /\ as_pc \in {"next", "done"}

KindsOf(h, p) == {w[1] : w \in {x \in written : x[2] = h /\ x[3] = p}}

\* C1: every (head, prompt) pair whose body has run wrote exactly the output of
\* its mode: the filtered Gaussian model and the filtered point cloud when
\* gaussians_list is not None (whatever generate_mask is), only the mask when
\* gaussians_list is None and generate_mask is set, only the full point cloud
\* otherwise; no pair has both a filtered model and a mask.
C1_OneOutputPerPair ==
    \A h \in Heads, p \in Prompts :
        /\ Completed(h, p) =>
             KindsOf(h, p) = IF gaussians_list /= None
                               THEN {"gaussian_model", "filtered_pcd"}
                               ELSE IF generate_mask THEN {"mask"} ELSE {"full_pcd"}
        /\ ~Completed(h, p) => KindsOf(h, p) = {}
        /\ ~({"gaussian_model", "mask"} \subseteq KindsOf(h, p))

C1_Witness ==
    /\ as_pc = "done"
    /\ gaussians_list /= None
    /\ generate_mask
    /\ <<"gaussian_model", NumHeads - 1, NumPrompts - 1>> \in written

\* Positions whose relevance is strictly above 0.65.
Above65(rel) == {p \in DOMAIN rel : rel[p][1] > 65}

\* C2: in exclusion mode the saved model holds exactly the Gaussians whose
\* relevance for (i, k) is strictly above 0.65: each of the eight arrays, the
\* point positions and the point colours are the selection of the original
\* array at those positions, in the original order, all of the same length.
C2_ExcludeKeepsAbove65 ==
    out.kind = "exclude" =>
        LET keep == Above65(out.rel)
            orig == GaussianOf(out.head, n_gauss)
        IN /\ \A f \in Fields : IsSelection(out.model[f], orig[f], keep)
           /\ IsSelection(out.points, [p \in 1 .. n_gauss |-> Attr("_xyz", 0, p)], keep)
           /\ IsSelection(out.colors, [p \in 1 .. n_gauss |-> <<"rgb", out.rel[p][1]>>], keep)
           /\ \A f \in Fields : Len(out.model[f]) = Len(out.points)
           /\ Len(out.colors) = Len(out.points)

C2_Witness ==
    /\ out.kind = "exclude"
    /\ out.head = 1
    /\ \E p \in DOMAIN out.rel : out.rel[p][1] = 65
    /\ \E p, q \in Above65(out.rel) : p < q
    /\ Len(out.model["_opacity"]) = 2

\* C3: in 2D mask mode the mask written for (i, k, index) has the height and
\* width of the relevance map and each pixel is 1 exactly when the relevance of
\* that pixel is strictly above 0.58, and 0 otherwise.
C3_MaskIsThreshold58 ==
    out.kind = "mask" =>
        /\ gaussians_list = None /\ generate_mask
        /\ out.index = index
        /\ DOMAIN out.image = DOMAIN out.rel
        /\ \A p \in DOMAIN out.rel :
             /\ DOMAIN out.image[p] = DOMAIN out.rel[p]
             /\ \A q \in DOMAIN out.rel[p] :
                  /\ out.image[p][q] \in {0, 1}
                  /\ (out.image[p][q] = 1) <=> (out.rel[p][q] > 58)

C3_Witness ==
    /\ out.kind = "mask"
    /\ \E p \in DOMAIN out.rel : \E q, r \in DOMAIN out.rel[p] :
         /\ out.rel[p][q] = 58 /\ out.image[p][q] = 0
         /\ out.rel[p][r] = 59 /\ out.image[p][r] = 1

\* C9: activate_stream leaves the models of gaussians_list and point_xyz as
\* they were: after any number of (head, prompt) passes every model still holds
\* all its Gaussians, and each saved model is the selection from the full
\* original model, not from what an earlier prompt kept.
C9_InputsUnchanged ==
    /\ point_xyz = [p \in 1 .. n_gauss |-> Attr("_xyz", 0, p)]
    /\ gaussians_list /= None =>
         /\ \A h \in 1 .. NumHeads : heap[gaussians_list[h]] = GaussianOf(h - 1, n_gauss)
         /\ out.kind = "exclude" =>
              \A f \in Fields :
                  /\ Len(out.model[f]) = Cardinality(Above65(out.rel))
                  /\ \A n \in 1 .. Len(out.model[f]) :
                       \E p \in 1 .. n_gauss : out.model[f][n] = Attr(f, out.head, p)

C9_Witness ==
    /\ out.kind = "exclude"
    /\ out.prompt = 1
    /\ <<"gaussian_model", out.head, 0>> \in written
    /\ Len(out.model["_xyz"]) = n_gauss
    /\ Len(heap[gaussians_list[out.head + 1]]["_xyz"]) = n_gauss

\* The n-th base name (n from 1) of a directory in numeric order.
NthNumeric(S, n) ==
    CHOOSE x \in S : Cardinality({y \in S : ParseInt(y) < ParseInt(x)}) = n - 1

MasksIn(p, h) == {f \in files : f.dir = MaskDir(p, h)}

\* C7: in 2D mask mode evaluate writes, per prompt and level, exactly one mask
\* per feature file of the level's directory, and mask <j>.png comes from the
\* file with the j-th smallest numeric base name.
C7_OneMaskPerFeatureFile ==
    (ev_pc = "done" /\ gaussians_list = None /\ generate_mask) =>
        \A p \in Prompts, h \in Heads :
            /\ Cardinality(MasksIn(p, h)) = Cardinality(feat_files[h])
            /\ \A f \in MasksIn(p, h) :
                 /\ f.name[1] < Cardinality(feat_files[h])
                 /\ f.from = FromFile(NthNumeric(feat_files[h], f.name[1] + 1))

\* C8: activate_stream is called once per frame index 0 .. N-1, in increasing
\* order, and every file in the heatmap directory or in a masks/<prompt>/<head>
\* directory was written when that directory had already been made.
C8_FramesInOrderDirsFirst ==
    LET N == Len(compressed_sem_feats[0])
    IN /\ Len(calls) <= N
       /\ \A n \in 1 .. Len(calls) : calls[n] = n - 1
       /\ ev_pc = "done" => Len(calls) = N
       /\ ev_pc \in {"frame", "activate"} => Len(calls) = j + (IF ev_pc = "activate" THEN 1 ELSE 0)
       /\ \A f \in files : f.dir /= PointCloudDir => f.dir \in dirs

C8_Witness ==
    /\ ev_pc = "done"
    /\ gaussians_list = None /\ generate_mask
    /\ Len(calls) = FrameCap
    /\ \A p \in Prompts, h \in Heads : Cardinality(MasksIn(p, h)) = FrameCap
    /\ HeatmapDir \in dirs

\* The greatest value of a map, stated by its defining property.
IsMaxOf(v, img) ==
    /\ \E r \in DOMAIN img : \E c \in DOMAIN img[r] : img[r][c] = v
    /\ \A r \in DOMAIN img : \A c \in DOMAIN img[r] : img[r][c] <= v

\* C4: the selected head is the head whose smoothed map has the greatest
\* maximum, the lowest index among equals, and the located points are exactly
\* the positions of that map whose value is its maximum, each as (column, row).
C4_HeadAndPointsOfMaximum ==
    loc_pc = "selected" =>
        \E best \in LocVals :
            /\ IsMaxOf(best, avg_filtered[selec_head])
            /\ \A h \in Heads : \A v \in LocVals :
                 IsMaxOf(v, avg_filtered[h]) =>
                     /\ v <= best
                     /\ v = best => selec_head <= h
            /\ {coord_final[n] : n \in DOMAIN coord_final} =
                 {xy \in LocCols \X LocRows : avg_filtered[selec_head][xy[2]][xy[1]] = best}
            /\ Len(coord_final) = Cardinality({coord_final[n] : n \in DOMAIN coord_final})

C4_Witness ==
    /\ loc_pc = "selected"
    /\ selec_head = 1
    /\ score_lvl[0] < score_lvl[1]
    /\ score_lvl[2] = score_lvl[1]
    /\ coord_final = <<<<1, 0>>>>

\* C5: a prompt is counted at most once: when its box loop has ended acc_num
\* has grown by 1 if some located point lies inside some box read for the
\* prompt (inclusive bounds, either corner order) and by 0 otherwise; acc_num
\* stays between 0 and the number of labels.
C5_PromptCountedOnce ==
    /\ 0 <= acc_num /\ loc_k <= n_labels
    /\ acc_num <= (IF loc_pc = "show" THEN loc_k + 1 ELSE loc_k)
    /\ loc_pc = "show" => acc_num = acc_before + (IF any_inside THEN 1 ELSE 0)
    /\ loc_pc = "done" => acc_num <= n_labels
    /\ (loc_pc \in {"box", "show"} /\ n_box > 0) =>
         /\ flag \in {0, 1}
         /\ acc_num = acc_before + flag
         /\ (flag = 1) <=> \E n \in DOMAIN coord_final :
                              Inside(coord_final[n][1], coord_final[n][2], box)

C5_Witness ==
    /\ loc_pc = "show"
    /\ loc_k = 1
    /\ acc_num = 1
    /\ acc_before = 0
    /\ n_box = 2
    /\ flag = 1
    /\ box[3] < box[1]
    /\ \E n \in DOMAIN coord_final : coord_final[n][1] = box[1]

RECURSIVE BoxesOf(_, _)
\* The boxes of the objects of a label, one after the other, in object order.
BoxesOf(objs, label) ==
    IF objs = <<>> THEN <<>>
    ELSE (IF objs[1].label = label THEN objs[1].bbox ELSE <<>>) \o BoxesOf(Tail(objs), label)

RECURSIVE SegsOf(_, _)
SegsOf(objs, label) ==
    IF objs = <<>> THEN <<>>
    ELSE (IF objs[1].label = label THEN <<objs[1].seg>> ELSE <<>>) \o SegsOf(Tail(objs), label)

CountOf(objs, label) == Cardinality({n \in DOMAIN objs : objs[n].label = label})

KeyOf(file) == ToString(ParseInt(file.name) - 1)

\* C6: gt_ann is keyed by str(frame number - 1) of every file read; the value
\* of a key maps each label of the (last) file of that frame to its boxes and
\* mask: a label seen n times has the n boxes, 4 values each, in object order,
\* and the mask stacked from its n polygons; never only the last object's.
C6_AnnotationsPerFrameAndLabel ==
    gt_pc \in {"files", "returned"} =>
        /\ DOMAIN gt_ann = {KeyOf(gt_seen[n]) : n \in DOMAIN gt_seen}
        /\ \A n \in DOMAIN gt_seen :
             (\A m \in DOMAIN gt_seen : KeyOf(gt_seen[m]) = KeyOf(gt_seen[n]) => m <= n) =>
                 LET ann == gt_ann[KeyOf(gt_seen[n])]
                     objs == gt_seen[n].objs
                 IN /\ DOMAIN ann = {objs[o].label : o \in DOMAIN objs}
                    /\ \A label \in DOMAIN ann :
                         /\ ann[label].bboxes.v = BoxesOf(objs, label)
                         /\ Len(ann[label].bboxes.v) = 4 * CountOf(objs, label)
                         /\ ann[label].mask = SegsOf(objs, label)

C6_Witness ==
    /\ gt_pc = "returned"
    /\ "9" \in DOMAIN gt_ann
    /\ "-1" \in DOMAIN gt_ann
    /\ "apple" \in DOMAIN gt_ann["9"]
    /\ gt_ann["9"]["apple"].bboxes.v = <<1, 1, 2, 2, 2, 2, 3, 3>>
    /\ gt_ann["9"]["apple"].mask = <<1, 2>>

====
